---- MODULE Spec2Model ----
(***************************************************************************)
(* GoogleTakeoutProcessor (src/src/google_takeout_live_photos/processor.py) *)
(* as a state machine: the scan of the source tree, the two-pass pairing,  *)
(* the staging of pairs and leftovers into the two destination trees, and  *)
(* repeated process() calls over the same trees.                           *)
(***************************************************************************)
EXTENDS Integers, Sequences, FiniteSets, TLC

VARIABLES
    tree,            \* the media tree under root_dir: a set of source files
    content,         \* content digest of every file the source tree holds or held
    cfg,             \* the processor's configuration (__init__ arguments)
    pc,              \* position inside process()
    run,             \* number of process() calls started so far
    walk,            \* order in which os.walk delivered the source files
    stats,           \* self.stats
    by_dir_base,     \* scan index: (directory, basename) groups in insertion order
    stills_by_base,  \* scan index: basename -> list of stills
    videos_by_base,  \* scan index: basename -> list of videos
    pairs,           \* list returned by find_pairs
    used_files,      \* set returned by find_pairs
    probed,          \* results get_video_duration returned in this find_pairs
    pair_hashes,     \* set returned by process_pairs
    leftovers_log,   \* the files process_leftovers staged or skipped, in order
    issues,          \* self.issues
    fs,              \* the destination trees pairs_dir and leftovers_dir
    root_is_dir,     \* whether root_dir is an existing directory
    start,           \* history: the trees and stats when the current process() began
    prev,            \* history: the previous process() call when it ended
    env,             \* the environment: ffprobe, symlink support, unreadable files
    raised,          \* the exception the current process() call has raised, if any
    processing       \* the GUI's self.processing flag

vars == <<tree, content, cfg, pc, run, walk, stats, by_dir_base,
          stills_by_base, videos_by_base, pairs, used_files, probed,
          pair_hashes, leftovers_log, issues, fs, root_is_dir, start, prev,
          env, raised, processing>>

----------------------------------------------------------------------------
(* Bounds of the model *)

\* largest number of files in a source tree of the pairing specification
MaxFiles == 4
\* number of process() calls in one behaviour
MaxRuns == 2
\* number of source files deleted between the calls of one behaviour
MaxDeletes == 1

\* source directories below root_dir
Dirs == {1, 2}
\* basenames; their numeric order stands for the lexicographic order of strings
Bases == {1, 2}
\* file suffixes as they are spelled on disk
Exts == {"jpg", "PNG", "mov", "txt"}
\* content digests
Contents == {1, 2}

----------------------------------------------------------------------------
(* Program constants *)

STILL_EXTENSIONS == {"heic", "jpg", "jpeg", "png"}
VIDEO_EXTENSIONS == {"mov", "mp4"}
ALL_EXTENSIONS == STILL_EXTENSIONS \cup VIDEO_EXTENSIONS

\* get_video_duration returning None
NoneDuration == -1
\* what the prober can return for a video: None, or a duration in seconds
ProbeResults == {NoneDuration, 3, 10}
\* subprocess.run raising PermissionError, which get_video_duration does
\* not catch
PermissionDenied == -2
\* default of max_video_duration
DefaultMaxDuration == 6
\* values of max_video_duration: disabled (negative, zero) and the default
DurationLimits == {-1, 0, DefaultMaxDuration}

----------------------------------------------------------------------------
(* Files and names *)

\* str.lower() on a suffix
Lower(ext) ==
    CASE ext = "PNG" -> "png"
      [] ext = "JPG" -> "jpg"
      [] ext = "MOV" -> "mov"
      [] OTHER -> ext

\* a file of the source tree: directory, basename and suffix; seq and role are
\* only used by the names process_pairs gives to its output files
SrcFile(d, b, e) == [dir |-> d, seq |-> 0, base |-> b, role |-> "", ext |-> e]

\* Path(filename).stem
Stem(f) == [seq |-> f.seq, base |-> f.base, role |-> f.role]

IsStill(f) == Lower(f.ext) \in STILL_EXTENSIONS
IsVideo(f) == Lower(f.ext) \in VIDEO_EXTENSIONS
\* mutant of IsMedia: the suffix is compared as it is spelled
IsMediaCaseSensitive(f) == f.ext \in ALL_EXTENSIONS

\* "ext = Path(filename).suffix.lower()", "if ext not in ALL_EXTENSIONS"
IsMedia(f) == Lower(f.ext) \in ALL_EXTENSIONS

\* string order of two stems: the names of staged pair files start with the
\* zero-padded sequence number, source basenames do not
StemLess(a, b) ==
    \/ a.seq > 0 /\ b.seq = 0
    \/ a.seq > 0 /\ b.seq > 0 /\ a.seq < b.seq
    \/ a.seq > 0 /\ a.seq = b.seq /\ a.base < b.base
    \/ a.seq > 0 /\ a.seq = b.seq /\ a.base = b.base /\ a.role = "STILL" /\ b.role = "VIDEO"
    \/ a.seq = 0 /\ b.seq = 0 /\ a.base < b.base

SeqToSet(s) == {s[i] : i \in 1..Len(s)}

\* all orders of the elements of a set
Perms(S) ==
    {p \in [1..Cardinality(S) -> S] :
        \A i, j \in 1..Cardinality(S) : i # j => p[i] # p[j]}

\* os.walk yields one directory after another, the directories and the files
\* of a directory in the order the filesystem lists them
WalkOrders(files) ==
    {w \in Perms(files) :
        \A i, j, k \in 1..Cardinality(files) :
            (i < j /\ j < k /\ w[i].dir = w[k].dir) => w[j].dir = w[i].dir}

----------------------------------------------------------------------------
(* scan_media_files *)

\* by_dir_base[key][...].append(full_path): the group of the file's
\* (directory, basename) key is created on first use, at the end of the dict
\* mutant of GroupKey: the key leaves out the directory
GroupKeyNoDir(f) == <<0, Stem(f)>>

\* key = (root, base_name)
GroupKey(f) == <<f.dir, Stem(f)>>

AddToGroups(groups, f) ==
    LET key == GroupKey(f)
        at  == {i \in 1..Len(groups) : groups[i].key = key}
    IN  IF at = {}
        THEN Append(groups,
                    [key    |-> key,
                     stills |-> IF IsStill(f) THEN <<f>> ELSE <<>>,
                     videos |-> IF IsStill(f) THEN <<>> ELSE <<f>>])
        ELSE LET i == CHOOSE i \in at : TRUE
             IN  IF IsStill(f)
                 THEN [groups EXCEPT ![i].stills = Append(@, f)]
                 ELSE [groups EXCEPT ![i].videos = Append(@, f)]

\* by_dir_base after the first n files of the listing; files with an
\* unrecognized suffix are skipped
RECURSIVE IndexGroups(_, _)
IndexGroups(listing, n) ==
    IF n = 0 THEN <<>>
    ELSE LET g == IndexGroups(listing, n - 1)
         IN  IF IsMedia(listing[n]) THEN AddToGroups(g, listing[n]) ELSE g

\* stills_by_base: basename -> stills of that basename, in listing order
IndexStills(listing) ==
    [b \in {Stem(f) : f \in {x \in SeqToSet(listing) : IsMedia(x) /\ IsStill(x)}} |->
        SelectSeq(listing, LAMBDA f : IsMedia(f) /\ IsStill(f) /\ Stem(f) = b)]

\* videos_by_base: basename -> videos of that basename, in listing order
IndexVideos(listing) ==
    [b \in {Stem(f) : f \in {x \in SeqToSet(listing) : IsMedia(x) /\ ~IsStill(x)}} |->
        SelectSeq(listing, LAMBDA f : IsMedia(f) /\ ~IsStill(f) /\ Stem(f) = b)]

----------------------------------------------------------------------------
(* find_pairs *)

\* mutant of PassAEligible: the first still and the first video of a group
\* are paired when the group has several
PassAFirstOfEach(g) == Len(g.stills) >= 1 /\ Len(g.videos) >= 1

\* mutant of PassAEligible: Pass A pairs nothing
PassANever(g) == FALSE

\* Pass A condition on a (directory, basename) group
PassAEligible(g) == Len(g.stills) = 1 /\ Len(g.videos) = 1

\* the pairs Pass A appends for the first n groups of by_dir_base
RECURSIVE PassA(_, _)
PassA(groups, n) ==
    IF n = 0 THEN <<>>
    ELSE LET g == groups[n]
         IN  IF PassAEligible(g)
             THEN Append(PassA(groups, n - 1),
                         [match_type |-> "same_dir", base |-> g.key[2],
                          still |-> g.stills[1], video |-> g.videos[1]])
             ELSE PassA(groups, n - 1)

FilesOfPairs(ps) == UNION {{ps[i].still, ps[i].video} : i \in 1..Len(ps)}

\* mutant of SortedStems: the basenames in descending order
RECURSIVE SortedStemsDescending(_)
SortedStemsDescending(S) ==
    IF S = {} THEN <<>>
    ELSE LET m == CHOOSE x \in S : \A y \in S \ {x} : StemLess(y, x)
         IN  <<m>> \o SortedStemsDescending(S \ {m})

\* sorted(all_base_names)
RECURSIVE SortedStems(_)
SortedStems(S) ==
    IF S = {} THEN <<>>
    ELSE LET m == CHOOSE x \in S : \A y \in S \ {x} : StemLess(x, y)
         IN  <<m>> \o SortedStems(S \ {m})

\* dict.get(base_name, [])
GetList(index, b) == IF b \in DOMAIN index THEN index[b] ELSE <<>>

\* [p for p in list if p not in used_files]
Unused(list, used) == SelectSeq(list, LAMBDA p : p \notin used)

\* "if self.max_video_duration and self.max_video_duration > 0"
DurationGate(maxdur) == maxdur # 0 /\ maxdur > 0

\* mutant of DurationRejects: no duration is rejected
DurationRejectsNever(d, maxdur) == FALSE

\* mutant of DurationRejects: an unknown duration is not rejected
DurationRejectsOnlyLong(d, maxdur) == d > maxdur

\* "if duration is None or duration > self.max_video_duration: continue"
DurationRejects(d, maxdur) == d = NoneDuration \/ d > maxdur

\* mutant of PassBCandidate: with several stills left the first one is taken
PassBCandidateFirstStill(us, uv) == Len(us) >= 1 /\ Len(uv) = 1

\* Pass B condition on the remaining files of a basename
PassBCandidate(us, uv) == Len(us) = 1 /\ Len(uv) = 1

\* what a call of get_video_duration can do in an environment: with a
\* working ffprobe it returns a duration or None (timeout, empty or malformed
\* output), without ffprobe it returns None (FileNotFoundError is caught),
\* with an ffprobe that cannot be executed PermissionError leaves it
get_video_duration(e) ==
    CASE e.ffprobe = "ok" -> ProbeResults
      [] e.ffprobe = "missing" -> {NoneDuration}
      [] OTHER -> {PermissionDenied}

\* one iteration of the Pass B loop; probe[v] is what get_video_duration
\* does for v when it is called; after an exception no iteration runs
PassBStep(acc, b, sbb, vbb, maxdur, probe) ==
    LET us == Unused(GetList(sbb, b), acc.used_files)
        uv == Unused(GetList(vbb, b), acc.used_files)
    IN  IF acc.raised \/ ~PassBCandidate(us, uv) THEN acc
        ELSE LET still  == us[1]
                 video  == uv[1]
                 called == IF DurationGate(maxdur)
                           THEN acc.probed \cup {[video |-> video, result |-> probe[video]]}
                           ELSE acc.probed
             IN  IF DurationGate(maxdur) /\ probe[video] = PermissionDenied
                 THEN [acc EXCEPT !.probed = called, !.raised = TRUE]
                 ELSE IF DurationGate(maxdur) /\ DurationRejects(probe[video], maxdur)
                 THEN [acc EXCEPT !.probed = called]
                 ELSE [pairs      |-> Append(acc.pairs,
                                        [match_type |-> "cross_dir", base |-> b,
                                         still |-> still, video |-> video]),
                       used_files |-> acc.used_files \cup {still, video},
                       probed     |-> called,
                       raised     |-> FALSE]

\* Pass B over the first n basenames of the sorted order
RECURSIVE PassB(_, _, _, _, _, _, _)
PassB(order, n, acc0, sbb, vbb, maxdur, probe) ==
    IF n = 0 THEN acc0
    ELSE PassBStep(PassB(order, n - 1, acc0, sbb, vbb, maxdur, probe),
                   order[n], sbb, vbb, maxdur, probe)

\* find_pairs: pairs, used_files, the prober calls made and whether an
\* exception left it
find_pairs(groups, sbb, vbb, maxdur, probe) ==
    LET a == PassA(groups, Len(groups))
    IN  PassB(SortedStems(DOMAIN sbb \cup DOMAIN vbb),
              Cardinality(DOMAIN sbb \cup DOMAIN vbb),
              [pairs |-> a, used_files |-> FilesOfPairs(a), probed |-> {},
               raised |-> FALSE],
              sbb, vbb, maxdur, probe)

CountType(ps, t) == Cardinality({i \in 1..Len(ps) : ps[i].match_type = t})

----------------------------------------------------------------------------
(* Destination trees *)

\* the directory pairs_dir, as os.walk names it when it lies under root_dir
PairsDir == 0

\* pairs_dir / f"{i:05d}_{base_name}__STILL{still_ext}" and ...__VIDEO{video_ext}
PairOutName(i, p, role) ==
    [dir |-> PairsDir, seq |-> i, base |-> p.base.base, role |-> role,
     ext |-> IF role = "STILL" THEN p.still.ext ELSE p.video.ext]

\* pairs_dir / "manifest_pairs.tsv"
PairsManifestFile ==
    [dir |-> PairsDir, seq |-> 0, base |-> 0, role |-> "manifest_pairs", ext |-> "tsv"]

\* the file name of a walked file: its stem and suffix without the directory
Filename(f) == [seq |-> f.seq, base |-> f.base, role |-> f.role, ext |-> f.ext]

\* leftovers_dir / f"L{leftover_id:06d}__{filename}"
LeftOutName(id, f) == [id |-> id, name |-> Filename(f)]

\* the last column of a SKIP_DUP row names no output file
NoOutput == [id |-> 0, name |-> [seq |-> 0, base |-> 0, role |-> "", ext |-> ""]]

EmptyDir == [x \in {} |-> x]

\* dst.exists(): the path names a file, or a link whose target exists (the
\* files of pairs_dir stay where they are)
Exists(dir, dst, tr) ==
    /\ dst \in DOMAIN dir
    /\ \/ dir[dst].kind = "copy"
       \/ dir[dst].src.dir = PairsDir
       \/ dir[dst].src \in tr

\* shutil.copy2(src, dst) on d = [dir, tree, content, raised]: OSError when
\* src cannot be read; a dst that is a link whose target is gone is written
\* through, which creates the target; otherwise dst is a new file
copy2(d, src, dst, digest, e) ==
    IF src \in e.copy_fails THEN [d EXCEPT !.raised = TRUE]
    ELSE IF dst \in DOMAIN d.dir
    THEN [d EXCEPT !.tree = @ \cup {d.dir[dst].src},
                   !.content = (d.dir[dst].src :> digest) @@ @]
    ELSE [d EXCEPT !.dir = @ @@ (dst :> [src |-> src, kind |-> "copy",
                                         digest |-> digest])]

\* os.symlink(src, dst): OSError where links cannot be made and when dst is
\* already an entry of the directory
symlink(d, src, dst, e) ==
    IF e.link_fails \/ dst \in DOMAIN d.dir THEN [d EXCEPT !.raised = TRUE]
    ELSE [d EXCEPT !.dir = @ @@ (dst :> [src |-> src, kind |-> "link", digest |-> 0])]

\* mutant of safe_link_or_copy: an existing destination is replaced
SafeLinkOrCopyOverwrites(d, src, dst, digest, copy_files, e) ==
    [d EXCEPT !.dir = (dst :> [src |-> src,
                               kind |-> IF copy_files THEN "copy" ELSE "link",
                               digest |-> IF copy_files THEN digest ELSE 0]) @@ @]

\* mutant of safe_link_or_copy: the OSError of a failed link is not caught
SafeLinkOrCopyNoFallback(d, src, dst, digest, copy_files, e) ==
    IF Exists(d.dir, dst, d.tree) THEN d
    ELSE IF copy_files THEN copy2(d, src, dst, digest, e)
    ELSE symlink(d, src, dst, e)

\* safe_link_or_copy on d = [dir, tree, content, raised]: nothing happens when
\* dst exists; otherwise dst becomes a copy of src or a symbolic link to it,
\* a failed link is followed by a copy, and the OSError of a failed copy
\* leaves the method (raised)
safe_link_or_copy(d, src, dst, digest, copy_files, e) ==
    IF Exists(d.dir, dst, d.tree) THEN d
    ELSE IF copy_files THEN copy2(d, src, dst, digest, e)
    ELSE LET linked == symlink(d, src, dst, e)
         IN  IF linked.raised THEN copy2(d, src, dst, digest, e) ELSE linked

\* mutant of HashFails: every file can be hashed
HashNeverFails(f, pdir, tr, e) == FALSE

\* calculate_sha1 raises IOError: the file, or the target of the link, is
\* unreadable or gone
HashFails(f, pdir, tr, e) ==
    IF f.dir = PairsDir
    THEN pdir[f].kind = "link" /\ (pdir[f].src \in e.hash_fails \/ pdir[f].src \notin tr)
    ELSE f \in e.hash_fails

\* the bytes read through a path: a source file, or a staged pair file (a
\* copy, or a link to its source)
ContentOf(f, pdir, cont) ==
    IF f.dir = PairsDir
    THEN IF pdir[f].kind = "copy" THEN pdir[f].digest ELSE cont[pdir[f].src]
    ELSE cont[f]

\* order of the suffixes as strings
ExtRank(e) ==
    CASE e = "PNG" -> 1 [] e = "jpg" -> 2 [] e = "mov" -> 3 [] e = "tsv" -> 4
      [] OTHER -> 5

\* order of two paths as strings
FileLess(a, b) ==
    \/ a.dir < b.dir
    \/ a.dir = b.dir /\ StemLess(Stem(a), Stem(b))
    \/ a.dir = b.dir /\ Stem(a) = Stem(b) /\ ExtRank(a.ext) < ExtRank(b.ext)

RECURSIVE SortedFiles(_)
SortedFiles(S) ==
    IF S = {} THEN <<>>
    ELSE LET m == CHOOSE x \in S : \A y \in S \ {x} : FileLess(x, y)
         IN  <<m>> \o SortedFiles(S \ {m})

\* what os.walk(root_dir) delivers: the source files in walk order and, when
\* pairs_dir lies under root_dir, the entries of pairs_dir after them
Listing(w, in_root, pdir, manifest) ==
    IF in_root
    THEN w \o SortedFiles(DOMAIN pdir) \o
         (IF manifest.exists THEN <<PairsManifestFile>> ELSE <<>>)
    ELSE w

----------------------------------------------------------------------------
(* process_pairs *)

PairRow(i, p) ==
    [pair_id |-> i, match_type |-> p.match_type, basename |-> p.base,
     still_src |-> p.still, video_src |-> p.video,
     still_out |-> PairOutName(i, p, "STILL"),
     video_out |-> PairOutName(i, p, "VIDEO")]

\* mutant of OpenPairsDir: the manifest is opened for appending
OpenPairsDirAppend(f, c) ==
    IF c.dry_run THEN f
    ELSE [f EXCEPT !.pairs_exists = TRUE, !.pairs_manifest.exists = TRUE]

\* "if not self.dry_run:" pairs_dir.mkdir and open(pairs_manifest, "w")
OpenPairsDir(f, c) ==
    IF c.dry_run THEN f
    ELSE [f EXCEPT !.pairs_exists = TRUE,
                   !.pairs_manifest = [exists |-> TRUE, rows |-> <<>>]]

\* one iteration of the loop over enumerate(pairs, 1): under "if not
\* self.dry_run" the two files are linked or copied, the manifest row is
\* appended and, with dedupe_leftovers, the two output files are hashed
\* ("except IOError: pass" drops the hashes not yet added); after an
\* exception no iteration runs
StagePair(acc, i, p, c, e) ==
    IF acc.raised \/ c.dry_run THEN acc
    ELSE LET out_still == PairOutName(i, p, "STILL")
             out_video == PairOutName(i, p, "VIDEO")
             d0 == [dir |-> acc.fs.pairs_files, tree |-> acc.tree,
                    content |-> acc.content, raised |-> FALSE]
             d1 == safe_link_or_copy(d0, p.still, out_still, acc.content[p.still],
                                     c.copy_files, e)
             d2 == IF d1.raised THEN d1
                   ELSE safe_link_or_copy(d1, p.video, out_video, acc.content[p.video],
                                          c.copy_files, e)
             hs == IF HashFails(out_still, d2.dir, d2.tree, e) THEN {}
                   ELSE {ContentOf(out_still, d2.dir, d2.content)} \cup
                        (IF HashFails(out_video, d2.dir, d2.tree, e) THEN {}
                         ELSE {ContentOf(out_video, d2.dir, d2.content)})
         IN  IF d2.raised
             THEN [acc EXCEPT !.fs.pairs_files = d2.dir, !.tree = d2.tree,
                              !.content = d2.content, !.raised = TRUE]
             ELSE [fs      |-> [acc.fs EXCEPT !.pairs_files = d2.dir,
                                              !.pairs_manifest.rows = Append(@, PairRow(i, p))],
                   hashes  |-> IF c.dedupe_leftovers THEN acc.hashes \cup hs
                               ELSE acc.hashes,
                   tree    |-> d2.tree,
                   content |-> d2.content,
                   raised  |-> FALSE]

\* the loop over the first n pairs
RECURSIVE StagePairs(_, _, _, _, _)
StagePairs(ps, n, acc0, c, e) ==
    IF n = 0 THEN acc0
    ELSE StagePair(StagePairs(ps, n - 1, acc0, c, e), n, ps[n], c, e)

\* process_pairs: the trees afterwards, the returned pair_hashes and whether
\* an exception left it
process_pairs(ps, c, f, tr, cont, e) ==
    StagePairs(ps, Len(ps),
               [fs |-> OpenPairsDir(f, c), hashes |-> {}, tree |-> tr,
                content |-> cont, raised |-> FALSE],
               c, e)

----------------------------------------------------------------------------
(* process_leftovers *)

\* "if not self.dry_run:" leftovers_dir.mkdir and open(leftovers_manifest, "w")
OpenLeftoversDir(f, c) ==
    IF c.dry_run THEN f
    ELSE [f EXCEPT !.left_exists = TRUE,
                   !.left_manifest = [exists |-> TRUE, rows |-> <<>>]]

\* mutant of IsLeftover: only stills are staged as leftovers
IsLeftoverStillsOnly(f, used) == IsMedia(f) /\ IsStill(f) /\ f \notin used

\* mutant of IsLeftover: used_files is not consulted
IsLeftoverIgnoringUsed(f, used) == IsMedia(f)

\* the files the loop does not skip: recognized suffix, not in used_files
IsLeftover(f, used) == IsMedia(f) /\ f \notin used

\* mutant of DedupeActive: the dedupe branch is never taken
DedupeNever(c) == FALSE

\* "if self.dedupe_leftovers and not self.dry_run"
DedupeActive(c) == c.dedupe_leftovers /\ ~c.dry_run

\* mutant of WriteLeftover: no row for a leftover whose destination exists
WriteLeftoverNewOnly(acc, c, id, src, e) ==
    LET d == safe_link_or_copy([dir |-> acc.fs.left_files, tree |-> acc.tree,
                                content |-> acc.content, raised |-> FALSE],
                               src, LeftOutName(id, src),
                               ContentOf(src, acc.fs.pairs_files, acc.content),
                               c.copy_files, e)
    IN  [acc EXCEPT !.fs.left_files = d.dir,
                    !.fs.left_manifest.rows =
                        IF d.raised \/ Exists(acc.fs.left_files, LeftOutName(id, src), acc.tree)
                        THEN @
                        ELSE Append(@, [left_id |-> id, action |-> "COPIED", src |-> src,
                                        out |-> LeftOutName(id, src)]),
                    !.tree = d.tree,
                    !.content = d.content,
                    !.raised = d.raised]

\* mutant of WriteLeftover: the COPIED row is written before the file is
\* linked or copied
WriteLeftoverRowFirst(acc, c, id, src, e) ==
    LET d == safe_link_or_copy([dir |-> acc.fs.left_files, tree |-> acc.tree,
                                content |-> acc.content, raised |-> FALSE],
                               src, LeftOutName(id, src),
                               ContentOf(src, acc.fs.pairs_files, acc.content),
                               c.copy_files, e)
    IN  [acc EXCEPT !.fs.left_files = d.dir,
                    !.fs.left_manifest.rows =
                        Append(@, [left_id |-> id, action |-> "COPIED", src |-> src,
                                   out |-> LeftOutName(id, src)]),
                    !.tree = d.tree,
                    !.content = d.content,
                    !.raised = d.raised]

\* the statements under "if not self.dry_run:": safe_link_or_copy and,
\* when it returns, the COPIED row
WriteLeftover(acc, c, id, src, e) ==
    LET d == safe_link_or_copy([dir |-> acc.fs.left_files, tree |-> acc.tree,
                                content |-> acc.content, raised |-> FALSE],
                               src, LeftOutName(id, src),
                               ContentOf(src, acc.fs.pairs_files, acc.content),
                               c.copy_files, e)
    IN  [acc EXCEPT !.fs.left_files = d.dir,
                    !.fs.left_manifest.rows =
                        IF d.raised THEN @
                        ELSE Append(@, [left_id |-> id, action |-> "COPIED", src |-> src,
                                        out |-> LeftOutName(id, src)]),
                    !.tree = d.tree,
                    !.content = d.content,
                    !.raised = d.raised]

\* mutant of LinkLeftover: the leftover is linked or copied in a dry run too
LinkLeftoverInDryRun(acc, c, id, src, e) == WriteLeftover(acc, c, id, src, e)

\* "if not self.dry_run:" safe_link_or_copy and the COPIED row
LinkLeftover(acc, c, id, src, e) ==
    IF c.dry_run THEN acc ELSE WriteLeftover(acc, c, id, src, e)

\* one iteration of the loop over the walked files; log keeps the verbose
\* messages "[leftover]" and "[skip-dup]" whether or not verbose is set;
\* a hash that cannot be computed skips the dedupe test ("except IOError:
\* pass"), an exception of safe_link_or_copy ends the loop before the row
\* and the counter
StageLeftover(acc, f, used, c, phashes, e) ==
    IF acc.raised \/ ~IsLeftover(f, used) THEN acc
    ELSE LET id     == acc.leftover_id + 1
             hashed == DedupeActive(c) /\ ~HashFails(f, acc.fs.pairs_files, acc.tree, e)
             h      == ContentOf(f, acc.fs.pairs_files, acc.content)
         IN  IF hashed /\ h \in phashes \cup acc.hashes
             THEN [acc EXCEPT
                     !.leftover_id = id,
                     !.skipped = @ + 1,
                     !.log = Append(@, [left_id |-> id, action |-> "skip-dup", src |-> f]),
                     !.fs.left_manifest.rows =
                         Append(@, [left_id |-> id, action |-> "SKIP_DUP", src |-> f,
                                    out |-> NoOutput])]
             ELSE LET logged == [acc EXCEPT
                                   !.leftover_id = id,
                                   !.hashes = IF hashed THEN @ \cup {h} ELSE @,
                                   !.log = Append(@, [left_id |-> id, action |-> "leftover",
                                                      src |-> f])]
                      linked == LinkLeftover(logged, c, id, f, e)
                  IN  IF linked.raised THEN linked
                      ELSE [linked EXCEPT !.staged = @ + 1]

\* the loop over the first n walked files
RECURSIVE StageLeftovers(_, _, _, _, _, _, _)
StageLeftovers(listing, n, acc0, used, c, phashes, e) ==
    IF n = 0 THEN acc0
    ELSE StageLeftover(StageLeftovers(listing, n - 1, acc0, used, c, phashes, e),
                       listing[n], used, c, phashes, e)

\* process_leftovers: the trees afterwards, the two counters, the log and
\* whether an exception left it
process_leftovers(listing, used, c, phashes, f, tr, cont, e) ==
    StageLeftovers(listing, Len(listing),
                   [leftover_id |-> 0, skipped |-> 0, staged |-> 0, hashes |-> {},
                    log |-> <<>>, fs |-> OpenLeftoversDir(f, c), tree |-> tr,
                    content |-> cont, raised |-> FALSE],
                   used, c, phashes, e)

----------------------------------------------------------------------------
(* Issue detection *)

\* directory names that contain one of the takeout_indicators
TakeoutNamed(d) == d = 1

\* the keys of stills_by_base / videos_by_base in dict order: by first insertion
RECURSIVE KeysInOrder(_, _, _)
KeysInOrder(listing, n, still) ==
    IF n = 0 THEN <<>>
    ELSE LET ks == KeysInOrder(listing, n - 1, still)
             f  == listing[n]
         IN  IF IsMedia(f) /\ IsStill(f) = still /\ Stem(f) \notin SeqToSet(ks)
             THEN Append(ks, Stem(f)) ELSE ks

\* the issues detect_duplicate_names appends for one index
RECURSIVE DuplicateIssues(_, _, _, _)
DuplicateIssues(keys, n, index, type) ==
    IF n = 0 THEN <<>>
    ELSE IF Len(index[keys[n]]) > 1
         THEN Append(DuplicateIssues(keys, n - 1, index, type),
                     [type |-> type, base_name |-> keys[n],
                      files |-> index[keys[n]], count |-> Len(index[keys[n]])])
         ELSE DuplicateIssues(keys, n - 1, index, type)

\* the basenames detect_matching_conflicts reports
ConflictBases(sbb, vbb) ==
    {b \in DOMAIN sbb \cap DOMAIN vbb : Len(sbb[b]) > 1 \/ Len(vbb[b]) > 1}

ConflictIssue(b, sbb, vbb) ==
    [base_name |-> b, still_count |-> Len(sbb[b]), video_count |-> Len(vbb[b]),
     still_files |-> sbb[b], video_files |-> vbb[b]]

----------------------------------------------------------------------------
(* Initial states *)

ZeroStats ==
    [total_scanned |-> 0, same_dir_pairs |-> 0, cross_dir_pairs |-> 0,
     leftovers_staged |-> 0, leftovers_skipped |-> 0, duplicate_names |-> 0,
     potential_issues |-> 0, takeout_folders_found |-> 0]

NoIssues ==
    [duplicate_names |-> <<>>, structure_warnings |-> <<>>, matching_conflicts |-> <<>>]

NoManifest == [exists |-> FALSE, rows |-> <<>>]

EmptyFs ==
    [pairs_exists |-> FALSE, pairs_files |-> EmptyDir, pairs_manifest |-> NoManifest,
     left_exists |-> FALSE, left_files |-> EmptyDir, left_manifest |-> NoManifest]

\* the trees of the pairing specification
PairingFiles ==
    {SrcFile(d, b, e) : d \in Dirs, b \in Bases, e \in Exts \ {"txt"}}
        \cup {SrcFile(1, 1, "txt")}
\* the trees of the full specification: one basename in two directories
StagingFiles == {SrcFile(d, 1, e) : d \in Dirs, e \in {"jpg", "mov"}}

\* the digests of the files of a tree, up to renaming of the digests: the
\* first file of the tree has digest 1
DigestChoices(t) ==
    {c \in [t -> Contents] : t = {} \/ c[SortedFiles(t)[1]] = 1}

Configs(limits) ==
    [copy_files : BOOLEAN, dry_run : BOOLEAN, max_video_duration : limits,
     dedupe_leftovers : BOOLEAN, pairs_in_root : BOOLEAN]

\* an environment without faults
Benign == [ffprobe |-> "ok", link_fails |-> FALSE, copy_fails |-> {}, hash_fails |-> {}]

\* the environments of the fault specification: one kind of fault at a
\* time (ffprobe absent or not executable, a file system without links, one
\* file that cannot be copied or hashed), or links and one copy failing
Environments(t) ==
    {Benign}
        \cup {[Benign EXCEPT !.ffprobe = x] : x \in {"missing", "not_executable"}}
        \cup {[Benign EXCEPT !.link_fails = TRUE]}
        \cup {[Benign EXCEPT !.link_fails = l, !.copy_fails = {f}] : l \in BOOLEAN, f \in t}
        \cup {[Benign EXCEPT !.hash_fails = {f}] : f \in t}

InitRest ==
    /\ pc = "idle"
    /\ raised = "none"
    /\ run = 0
    /\ walk = <<>>
    /\ stats = ZeroStats
    /\ issues = NoIssues
    /\ by_dir_base = <<>>
    /\ stills_by_base = EmptyDir
    /\ videos_by_base = EmptyDir
    /\ pairs = <<>>
    /\ used_files = {}
    /\ probed = {}
    /\ pair_hashes = {}
    /\ leftovers_log = <<>>
    /\ fs = EmptyFs
    /\ start = [fs |-> EmptyFs, stats |-> ZeroStats, tree |-> tree, content |-> content]
    /\ prev = [run |-> 0, pc |-> "idle", cfg |-> cfg, walk |-> <<>>, pairs |-> <<>>,
               used_files |-> {}, probed |-> {}, leftovers_log |-> <<>>,
               stats |-> ZeroStats, start_stats |-> ZeroStats, fs |-> EmptyFs]

Init ==
    /\ root_is_dir \in BOOLEAN
    /\ tree \in IF root_is_dir THEN SUBSET StagingFiles ELSE {{}}
    /\ content \in DigestChoices(tree)
    /\ cfg \in Configs({DefaultMaxDuration})
    /\ env = Benign
    /\ processing = FALSE
    /\ InitRest

InitPairing ==
    /\ root_is_dir = TRUE
    /\ tree \in {t \in SUBSET PairingFiles : Cardinality(t) <= MaxFiles}
    /\ content = [f \in tree |-> 1]
    /\ cfg \in {c \in Configs(DurationLimits) :
                    c.dry_run /\ ~c.copy_files /\ ~c.dedupe_leftovers /\ ~c.pairs_in_root}
    /\ env = Benign
    /\ processing = FALSE
    /\ InitRest

\* real runs with destinations outside root_dir, all files of one content,
\* in every environment
InitFaults ==
    /\ root_is_dir = TRUE
    /\ tree \in SUBSET StagingFiles
    /\ content = [f \in tree |-> 1]
    /\ cfg \in {c \in Configs({DefaultMaxDuration}) : ~c.dry_run /\ ~c.pairs_in_root}
    /\ env \in Environments(tree)
    /\ processing = FALSE
    /\ InitRest

\* real runs with destinations outside root_dir over files of any content
InitReuse ==
    /\ root_is_dir = TRUE
    /\ tree \in SUBSET StagingFiles
    /\ content \in DigestChoices(tree)
    /\ cfg \in {c \in Configs({DefaultMaxDuration}) : ~c.dry_run /\ ~c.pairs_in_root}
    /\ env = Benign
    /\ processing = FALSE
    /\ InitRest

\* the GUI after start_processing: validate_inputs has accepted the
\* directories (output outside the input), self.processing is set and the
\* thread that runs process_photos has been started
InitGui ==
    /\ root_is_dir = TRUE
    /\ tree \in SUBSET StagingFiles
    /\ content = [f \in tree |-> 1]
    /\ cfg \in {c \in Configs({DefaultMaxDuration}) : ~c.pairs_in_root}
    /\ env = Benign
    /\ processing = TRUE
    /\ InitRest

----------------------------------------------------------------------------
(* process() *)

\* mutant of ProcessRaises: the pairs directory is made before the root is
\* looked at
ProcessRaisesAfterMkdir ==
    /\ pc = "idle"
    /\ run < MaxRuns
    /\ ~root_is_dir
    /\ pc' = "raised"
    /\ raised' = "FileNotFoundError"
    /\ run' = run + 1
    /\ fs' = [fs EXCEPT !.pairs_exists = TRUE]
    /\ UNCHANGED <<tree, content, cfg, walk, stats, by_dir_base, stills_by_base,
                   videos_by_base, pairs, used_files, probed, pair_hashes, leftovers_log,
                   issues, root_is_dir, start, prev, env, processing>>

\* process(): root_dir is no directory, FileNotFoundError is raised
ProcessRaises ==
    /\ pc = "idle"
    /\ run < MaxRuns
    /\ ~root_is_dir
    /\ pc' = "raised"
    /\ raised' = "FileNotFoundError"
    /\ run' = run + 1
    /\ UNCHANGED <<tree, content, cfg, walk, stats, by_dir_base, stills_by_base,
                   videos_by_base, pairs, used_files, probed, pair_hashes, leftovers_log,
                   issues, fs, root_is_dir, start, prev, env, processing>>

\* process() from its start to the return of scan_media_files:
\* validate_takeout_structure, the walk, detect_duplicate_names and
\* detect_matching_conflicts
Scan ==
    /\ pc = "idle"
    /\ run < MaxRuns
    /\ root_is_dir
    /\ \E w \in WalkOrders(tree) :
         LET listing == Listing(w, cfg.pairs_in_root, fs.pairs_files, fs.pairs_manifest)
             n       == Len(listing)
             found   == Cardinality({d \in {f.dir : f \in tree} : TakeoutNamed(d)})
             sbb     == IndexStills(listing)
             vbb     == IndexVideos(listing)
             sdups   == DuplicateIssues(KeysInOrder(listing, n, TRUE),
                                        Cardinality(DOMAIN sbb), sbb, "still")
             vdups   == DuplicateIssues(KeysInOrder(listing, n, FALSE),
                                        Cardinality(DOMAIN vbb), vbb, "video")
             confl   == ConflictBases(sbb, vbb)
         IN  \E order \in Perms(confl) :
               /\ walk' = w
               /\ by_dir_base' = IndexGroups(listing, n)
               /\ stills_by_base' = sbb
               /\ videos_by_base' = vbb
               /\ stats' = [stats EXCEPT
                              !.takeout_folders_found = @ + found,
                              !.total_scanned = @ + n,
                              !.duplicate_names = @ + Len(sdups) + Len(vdups),
                              !.potential_issues = Cardinality(confl)]
               /\ issues' = [duplicate_names    |-> issues.duplicate_names \o sdups \o vdups,
                             structure_warnings |->
                                 IF found = 0
                                 THEN Append(issues.structure_warnings, "no takeout structure")
                                 ELSE issues.structure_warnings,
                             matching_conflicts |->
                                 issues.matching_conflicts \o
                                 [i \in 1..Cardinality(confl) |-> ConflictIssue(order[i], sbb, vbb)]]
    /\ run' = run + 1
    /\ pc' = "scanned"
    /\ UNCHANGED <<tree, content, cfg, pairs, used_files, probed, pair_hashes,
                   leftovers_log, fs, root_is_dir, start, prev, env, raised, processing>>

\* find_pairs; the prober answers each call as the environment allows (it
\* is only called for videos Pass A left unused); a PermissionError of the
\* prober leaves find_pairs and process()
FindPairs ==
    /\ pc = "scanned"
    /\ \E probe \in [{f \in tree : IsMedia(f) /\ ~IsStill(f)} \
                         FilesOfPairs(PassA(by_dir_base, Len(by_dir_base)))
                      -> get_video_duration(env)] :
         LET r == find_pairs(by_dir_base, stills_by_base, videos_by_base,
                             cfg.max_video_duration, probe)
         IN  /\ pairs' = IF r.raised THEN <<>> ELSE r.pairs
             /\ used_files' = IF r.raised THEN {} ELSE r.used_files
             /\ probed' = r.probed
             /\ stats' = [stats EXCEPT
                            !.same_dir_pairs = @ + CountType(r.pairs, "same_dir"),
                            !.cross_dir_pairs = @ + CountType(r.pairs, "cross_dir")]
             /\ pc' = IF r.raised THEN "raised" ELSE "paired"
             /\ raised' = IF r.raised THEN "PermissionError" ELSE raised
    /\ UNCHANGED <<tree, content, cfg, run, walk, by_dir_base, stills_by_base,
                   videos_by_base, pair_hashes, leftovers_log, issues, fs, root_is_dir,
                   start, prev, env, processing>>

\* process_pairs; an OSError of safe_link_or_copy leaves it and process()
ProcessPairs ==
    /\ pc = "paired"
    /\ LET r == process_pairs(pairs, cfg, fs, tree, content, env)
       IN  /\ fs' = r.fs
           /\ tree' = r.tree
           /\ content' = r.content
           /\ pair_hashes' = r.hashes
           /\ pc' = IF r.raised THEN "raised" ELSE "staged"
           /\ raised' = IF r.raised THEN "OSError" ELSE raised
    /\ UNCHANGED <<cfg, run, walk, stats, by_dir_base, stills_by_base,
                   videos_by_base, pairs, used_files, probed, issues, leftovers_log,
                   root_is_dir, start, prev, env, processing>>

\* the second os.walk(root_dir): the source files in the order of the first
\* walk, then the files that have appeared since
WalkAgain(w, tr) == w \o SortedFiles(tr \ SeqToSet(w))

\* process_leftovers and the return of process(); an OSError of
\* safe_link_or_copy leaves both.  rglob lists a directory when it reaches
\* it, so a source file the loop itself creates is visited later in the same
\* loop when its directory had not been listed yet (late), and not otherwise
ProcessLeftovers ==
    /\ pc = "staged"
    /\ LET r1 == process_leftovers(
                    Listing(WalkAgain(walk, tree), cfg.pairs_in_root, fs.pairs_files,
                            fs.pairs_manifest),
                    used_files, cfg, pair_hashes, fs, tree, content, env)
       IN  \E late \in SUBSET (r1.tree \ tree) :
           LET r == StageLeftovers(SortedFiles(late), Cardinality(late), r1,
                                   used_files, cfg, pair_hashes, env)
           IN
           /\ stats' = [stats EXCEPT !.leftovers_staged = @ + r.staged,
                                     !.leftovers_skipped = @ + r.skipped]
           /\ fs' = r.fs
           /\ tree' = r.tree
           /\ content' = r.content
           /\ leftovers_log' = r.log
           /\ pc' = IF r.raised THEN "raised" ELSE "done"
           /\ raised' = IF r.raised THEN "OSError" ELSE raised
    /\ UNCHANGED <<cfg, run, walk, by_dir_base, stills_by_base,
                   videos_by_base, pairs, used_files, probed, pair_hashes, issues,
                   root_is_dir, start, prev, env, processing>>

\* what the history keeps of a process() call that has ended
Ended ==
    [run |-> run, pc |-> pc, cfg |-> cfg, walk |-> walk, pairs |-> pairs,
     used_files |-> used_files, probed |-> probed, leftovers_log |-> leftovers_log,
     stats |-> stats, start_stats |-> start.stats, fs |-> fs]

\* the locals of process() do not outlive the call
ForgetLocals ==
    /\ walk' = <<>>
    /\ by_dir_base' = <<>>
    /\ stills_by_base' = EmptyDir
    /\ videos_by_base' = EmptyDir
    /\ pairs' = <<>>
    /\ used_files' = {}
    /\ probed' = {}
    /\ pair_hashes' = {}
    /\ leftovers_log' = <<>>

\* the caller calls process() once more on the same processor
ProcessAgain ==
    /\ pc \in {"done", "raised"}
    /\ run < MaxRuns
    /\ prev' = Ended
    /\ start' = [fs |-> fs, stats |-> stats, tree |-> tree, content |-> content]
    /\ pc' = "idle"
    /\ raised' = "none"
    /\ ForgetLocals
    /\ UNCHANGED <<tree, content, cfg, run, stats, issues, fs, root_is_dir, env,
                   processing>>

\* the caller constructs a new processor over the same trees, with the same
\* arguments but the other value of dry_run
NewProcessor ==
    /\ pc \in {"done", "raised"}
    /\ run < MaxRuns
    /\ cfg' = [cfg EXCEPT !.dry_run = ~cfg.dry_run]
    /\ prev' = Ended
    /\ stats' = ZeroStats
    /\ issues' = NoIssues
    /\ start' = [fs |-> fs, stats |-> ZeroStats, tree |-> tree, content |-> content]
    /\ pc' = "idle"
    /\ raised' = "none"
    /\ ForgetLocals
    /\ UNCHANGED <<tree, content, run, fs, root_is_dir, env, processing>>

\* between two calls somebody deletes a file of the source tree
DeleteSource ==
    /\ pc \in {"done", "raised"}
    /\ run < MaxRuns
    /\ Cardinality(DOMAIN content \ tree) < MaxDeletes
    /\ \E f \in tree : tree' = tree \ {f}
    /\ UNCHANGED <<content, cfg, pc, run, walk, stats, by_dir_base, stills_by_base,
                   videos_by_base, pairs, used_files, probed, pair_hashes, leftovers_log,
                   issues, fs, root_is_dir, start, prev, env, raised, processing>>

\* between two calls the files of the source tree get other contents (they
\* are edited, or exported again); once between two calls
ReplaceSource ==
    /\ pc \in {"done", "raised"}
    /\ run < MaxRuns
    /\ content = start.content
    /\ \E c \in [tree -> Contents] :
          /\ c # [f \in tree |-> content[f]]
          /\ content' = c @@ content
    /\ UNCHANGED <<tree, cfg, pc, run, walk, stats, by_dir_base, stills_by_base,
                   videos_by_base, pairs, used_files, probed, pair_hashes, leftovers_log,
                   issues, fs, root_is_dir, start, prev, env, raised, processing>>

\* GUI: stop_processing while the thread is inside processor.process()
StopProcessing ==
    /\ processing
    /\ pc \in {"idle", "scanned", "paired", "staged"}
    /\ processing' = FALSE
    /\ UNCHANGED <<tree, content, cfg, pc, run, walk, stats, by_dir_base, stills_by_base,
                   videos_by_base, pairs, used_files, probed, pair_hashes, leftovers_log,
                   issues, fs, root_is_dir, start, prev, env, raised>>

\* GUI: process_photos after processor.process() has returned or raised;
\* its "finally" resets self.processing
ProcessPhotosEnds ==
    /\ processing
    /\ pc \in {"done", "raised"}
    /\ processing' = FALSE
    /\ UNCHANGED <<tree, content, cfg, pc, run, walk, stats, by_dir_base, stills_by_base,
                   videos_by_base, pairs, used_files, probed, pair_hashes, leftovers_log,
                   issues, fs, root_is_dir, start, prev, env, raised>>

Next ==
    \/ ProcessRaises
    \/ Scan
    \/ FindPairs
    \/ ProcessPairs
    \/ ProcessLeftovers
    \/ ProcessAgain
    \/ NewProcessor

Spec == Init /\ [][Next]_vars

NextPairing ==
    \/ Scan
    \/ FindPairs
    \/ ProcessPairs
    \/ ProcessLeftovers

SpecPairing == InitPairing /\ [][NextPairing]_vars

NextFaults ==
    \/ Scan
    \/ FindPairs
    \/ ProcessPairs
    \/ ProcessLeftovers
    \/ ProcessAgain
    \/ DeleteSource

SpecFaults == InitFaults /\ [][NextFaults]_vars

NextReuse ==
    \/ Scan
    \/ FindPairs
    \/ ProcessPairs
    \/ ProcessLeftovers
    \/ ProcessAgain
    \/ ReplaceSource

SpecReuse == InitReuse /\ [][NextReuse]_vars

NextGui ==
    \/ Scan
    \/ FindPairs
    \/ ProcessPairs
    \/ ProcessLeftovers
    \/ StopProcessing
    \/ ProcessPhotosEnds

SpecGui == InitGui /\ [][NextGui]_vars

----------------------------------------------------------------------------
(* Properties *)

\* find_pairs has returned
PairsFound == pc \in {"paired", "staged", "done"}

SameDirFiles ==
    UNION {{pairs[i].still, pairs[i].video} :
              i \in {k \in 1..Len(pairs) : pairs[k].match_type = "same_dir"}}

StillsAt(d, b) == {f \in tree : f.dir = d /\ f.base = b /\ IsStill(f)}
VideosAt(d, b) == {f \in tree : f.dir = d /\ f.base = b /\ IsVideo(f)}
StillsOf(b) == {f \in tree : f.base = b /\ IsStill(f)}
VideosOf(b) == {f \in tree : f.base = b /\ IsVideo(f)}
\* the stills and videos of a basename that Pass A left unused
RemainingStills(b) == StillsOf(b) \ SameDirFiles
RemainingVideos(b) == VideosOf(b) \ SameDirFiles

LoggedLeftovers == {leftovers_log[k].src : k \in 1..Len(leftovers_log)}

HasPair(type, s, v) ==
    \E i \in 1..Len(pairs) :
        pairs[i] = [match_type |-> type, base |-> Stem(s), still |-> s, video |-> v]

\* C1: no file appears in more than one pair of the list find_pairs returns,
\* and when process() has returned no file of a pair has been staged or
\* skipped as a leftover.
C1_ConsumedAtMostOnce ==
    /\ PairsFound =>
         \A i, j \in 1..Len(pairs) :
            /\ pairs[i].still # pairs[i].video
            /\ i # j => {pairs[i].still, pairs[i].video} \cap
                        {pairs[j].still, pairs[j].video} = {}
    /\ pc = "done" => LoggedLeftovers \cap FilesOfPairs(pairs) = {}

\* a real run with dedupe has returned with a pair and a skipped leftover
C1_Witness ==
    /\ pc = "done"
    /\ Len(pairs) >= 1
    /\ \E k \in 1..Len(leftovers_log) : leftovers_log[k].action = "skip-dup"

C3_PassBDurationGate ==
    PairsFound =>
        /\ cfg.max_video_duration <= 0 => probed = {}
        /\ \A b \in Bases :
            (Cardinality(RemainingStills(b)) = 1 /\ Cardinality(RemainingVideos(b)) = 1) =>
                LET s == CHOOSE f \in RemainingStills(b) : TRUE
                    v == CHOOSE f \in RemainingVideos(b) : TRUE
                IN  /\ HasPair("cross_dir", s, v) <=>
                          \/ cfg.max_video_duration <= 0
                          \/ \E r \in probed : /\ r.video = v
                                               /\ r.result # NoneDuration
                                               /\ r.result <= cfg.max_video_duration
                    /\ ~HasPair("cross_dir", s, v) =>
                          /\ {s, v} \cap used_files = {}
                          /\ pc = "done" => {s, v} \subseteq LoggedLeftovers

\* one candidate was accepted on its probed duration and another rejected
\* because its duration is unknown
C3_Witness ==
    /\ pc = "done"
    /\ \E i \in 1..Len(pairs) :
          /\ pairs[i].match_type = "cross_dir"
          /\ \E r \in probed : r.video = pairs[i].video
    /\ \E r \in probed : r.result = NoneDuration

C5_PairOrder ==
    PairsFound =>
        /\ \A i, j \in 1..Len(pairs) :
              (i < j /\ pairs[j].match_type = "same_dir") =>
                  pairs[i].match_type = "same_dir"
        /\ \A i, j \in 1..Len(pairs) :
              (i < j /\ pairs[i].match_type = "cross_dir") =>
                  StemLess(pairs[i].base, pairs[j].base)
        /\ used_files = FilesOfPairs(pairs)

\* two cross_dir pairs were found
C5_Witness ==
    /\ PairsFound
    /\ Cardinality({i \in 1..Len(pairs) : pairs[i].match_type = "cross_dir"}) = 2

\* the counters one process() call has added
RunCount(counter) == stats[counter] - start.stats[counter]
PrevRunCount(counter) == prev.stats[counter] - prev.start_stats[counter]

\* this call and the call before it have both returned, and the walk and the
\* prober gave both the same answers
SameAnswersAsBefore ==
    /\ pc = "done"
    /\ prev.pc = "done"
    /\ prev.walk = walk
    /\ prev.probed = probed

\* C6 as stated: the second of two dry runs of one configuration over the
\* unmodified tree returns the pair list of the first, in the same order, in
\* whatever order the walk delivers the directories and files.
C6_DryRunsSamePairs ==
    (/\ pc = "done"
     /\ prev.pc = "done"
     /\ cfg.dry_run
     /\ prev.cfg = cfg
     /\ prev.probed = probed) => pairs = prev.pairs

\* C7: in a dry run process() writes nothing: pairs_dir, leftovers_dir, the
\* manifests and the staged files are, at every step of the call, what they
\* were when the call began.
C7_DryRunWritesNothing ==
    cfg.dry_run => fs = start.fs

\* a dry run over directories a real run has filled has returned, with a
\* pair and a leftover to stage
C7_Witness ==
    /\ pc = "done"
    /\ cfg.dry_run
    /\ start.fs.pairs_exists
    /\ Len(pairs) >= 1
    /\ Len(leftovers_log) >= 1

\* C8 as stated: a real run that follows a dry run of the same configuration
\* over the same trees (destinations outside root_dir) ends with the pair
\* list and the pair and leftover counters of the dry run.
C8_DryRunReportsRealRun ==
    (/\ SameAnswersAsBefore
     /\ ~cfg.dry_run
     /\ ~cfg.pairs_in_root
     /\ prev.cfg = [cfg EXCEPT !.dry_run = TRUE]
     /\ prev.fs = start.fs) =>
        /\ pairs = prev.pairs
        /\ \A counter \in {"same_dir_pairs", "cross_dir_pairs",
                           "leftovers_staged", "leftovers_skipped"} :
              RunCount(counter) = PrevRunCount(counter)

\* C9 as stated: when process() has returned, the pairs and the leftovers it
\* counts are no more than the files it scanned.
C9_CountersBounded ==
    pc = "done" =>
        stats.same_dir_pairs + stats.cross_dir_pairs
            + stats.leftovers_staged + stats.leftovers_skipped <= stats.total_scanned

\* leftovers this call logged as staged whose destination did not exist when
\* the call began
NewlyStaged ==
    {k \in 1..Len(leftovers_log) :
        /\ leftovers_log[k].action = "leftover"
        /\ LeftOutName(leftovers_log[k].left_id, leftovers_log[k].src)
              \notin DOMAIN start.fs.left_files}

\* C10 as stated: a second real run of one configuration over the same trees
\* leaves the staged files as the first run left them, and adds to
\* leftovers_staged only for leftovers whose destination did not exist yet.
C10_StagingIdempotent ==
    (/\ SameAnswersAsBefore
     /\ ~cfg.dry_run
     /\ prev.cfg = cfg) =>
        /\ fs.pairs_files = prev.fs.pairs_files
        /\ fs.left_files = prev.fs.left_files
        /\ RunCount("leftovers_staged") = Cardinality(NewlyStaged)

\* the part of C10 the code keeps: the staged files and both manifests after
\* the second run are those after the first
C10_FilesUnchanged ==
    (/\ SameAnswersAsBefore
     /\ ~cfg.dry_run
     /\ prev.cfg = cfg) => fs = prev.fs

\* the destinations that existed when the call began, per directory
ExistedAtStart(dir) == {dst \in DOMAIN dir : Exists(dir, dst, start.tree)}

\* what is read through an entry of a destination directory
ReadThrough(entry, cont) ==
    IF entry.kind = "copy" THEN entry.digest
    ELSE IF entry.src.dir = PairsDir THEN 0
    ELSE cont[entry.src]

\* C11: a destination that exists when process() begins is left as it is by
\* every safe_link_or_copy call of the run, in copy mode and in symlink
\* mode: the entry and the content read through it stay the same, and an
\* OSError that leaves process_leftovers never comes from a destination that
\* existed.
C11_ExistingDestinationKept ==
    /\ \A dst \in ExistedAtStart(start.fs.pairs_files) :
          /\ dst \in DOMAIN fs.pairs_files
          /\ fs.pairs_files[dst] = start.fs.pairs_files[dst]
          /\ ReadThrough(fs.pairs_files[dst], content)
                = ReadThrough(start.fs.pairs_files[dst], start.content)
    /\ \A dst \in ExistedAtStart(start.fs.left_files) :
          /\ dst \in DOMAIN fs.left_files
          /\ fs.left_files[dst] = start.fs.left_files[dst]
          /\ ReadThrough(fs.left_files[dst], content)
                = ReadThrough(start.fs.left_files[dst], start.content)
    /\ (pc = "raised" /\ raised = "OSError" /\ Len(leftovers_log) > 0) =>
          LET last == leftovers_log[Len(leftovers_log)]
          IN  LeftOutName(last.left_id, last.src) \notin ExistedAtStart(start.fs.left_files)

\* a run has returned in which a leftover met a destination that existed and
\* had been made from another source file
C11_Witness ==
    /\ pc = "done"
    /\ \E k \in 1..Len(leftovers_log) :
          LET dst == LeftOutName(leftovers_log[k].left_id, leftovers_log[k].src)
          IN  /\ leftovers_log[k].action = "leftover"
              /\ dst \in ExistedAtStart(start.fs.left_files)
              /\ start.fs.left_files[dst].src # leftovers_log[k].src

\* the entries a directory has gained since the call began
NewEntries(dir, dir0) == DOMAIN dir \ DOMAIN dir0

\* every pair and every leftover logged as staged has its output files
AllStaged ==
    /\ \A i \in 1..Len(pairs) :
          {PairOutName(i, pairs[i], "STILL"), PairOutName(i, pairs[i], "VIDEO")}
              \subseteq DOMAIN fs.pairs_files
    /\ \A k \in 1..Len(leftovers_log) :
          leftovers_log[k].action = "leftover" =>
              LeftOutName(leftovers_log[k].left_id, leftovers_log[k].src)
                  \in DOMAIN fs.left_files

\* C12: in symlink mode on a file system where os.symlink fails, every file
\* the run stages is a copy of its source, the failed links do not end the
\* run (process() raises only when a copy fails too), and a run that returns
\* has staged all its pairs and leftovers.
C12_LinkFailureFallsBackToCopy ==
    (~cfg.copy_files /\ env.link_fails) =>
        /\ \A dst \in NewEntries(fs.pairs_files, start.fs.pairs_files) :
              /\ fs.pairs_files[dst].kind = "copy"
              /\ fs.pairs_files[dst].digest = content[fs.pairs_files[dst].src]
        /\ \A dst \in NewEntries(fs.left_files, start.fs.left_files) :
              /\ fs.left_files[dst].kind = "copy"
              /\ fs.left_files[dst].digest = content[fs.left_files[dst].src]
        /\ env.copy_fails = {} => pc # "raised"
        /\ pc = "done" => AllStaged

\* a symlink-mode run on a file system without links has returned with a
\* pair and a leftover staged
C12_Witness ==
    /\ pc = "done"
    /\ ~cfg.copy_files
    /\ env.link_fails
    /\ Len(pairs) >= 1
    /\ NewEntries(fs.pairs_files, start.fs.pairs_files) # {}
    /\ NewEntries(fs.left_files, start.fs.left_files) # {}

\* the digest of the k-th file process_leftovers handled
LeftoverDigest(k) == ContentOf(leftovers_log[k].src, fs.pairs_files, content)

\* the digests of the output files of this run's pairs
PairDigests ==
    {ContentOf(PairOutName(i, pairs[i], role), fs.pairs_files, content) :
        i \in 1..Len(pairs), role \in {"STILL", "VIDEO"}}

\* the digest of the k-th leftover is that of a staged pair file or of an
\* earlier leftover of the run
SeenBefore(k) ==
    \/ LeftoverDigest(k) \in PairDigests
    \/ \E j \in 1..(k - 1) : LeftoverDigest(j) = LeftoverDigest(k)

LeftoverRows(k, action) ==
    {n \in 1..Len(fs.left_manifest.rows) :
        /\ fs.left_manifest.rows[n].left_id = leftovers_log[k].left_id
        /\ fs.left_manifest.rows[n].action = action}

\* C13: in a real run with dedupe_leftovers a leftover is skipped exactly
\* when its digest is that of a staged pair file or of an earlier leftover
\* of the run; a skipped leftover gets no output file and one SKIP_DUP row
\* and counts in leftovers_skipped only, any other leftover is staged with
\* one COPIED row and counts in leftovers_staged only.
C13_DuplicateLeftoverSkipped ==
    (pc = "done" /\ cfg.dedupe_leftovers /\ ~cfg.dry_run) =>
        /\ \A k \in 1..Len(leftovers_log) :
              LET dst == LeftOutName(leftovers_log[k].left_id, leftovers_log[k].src)
              IN  IF SeenBefore(k)
                  THEN /\ leftovers_log[k].action = "skip-dup"
                       /\ dst \notin NewEntries(fs.left_files, start.fs.left_files)
                       /\ Cardinality(LeftoverRows(k, "SKIP_DUP")) = 1
                       /\ LeftoverRows(k, "COPIED") = {}
                  ELSE /\ leftovers_log[k].action = "leftover"
                       /\ dst \in DOMAIN fs.left_files
                       /\ Cardinality(LeftoverRows(k, "COPIED")) = 1
                       /\ LeftoverRows(k, "SKIP_DUP") = {}
        /\ RunCount("leftovers_skipped")
              = Cardinality({k \in 1..Len(leftovers_log) : SeenBefore(k)})
        /\ RunCount("leftovers_staged")
              = Cardinality({k \in 1..Len(leftovers_log) : ~SeenBefore(k)})

\* a real run with dedupe has skipped a leftover whose content is that of a
\* staged pair file, with both destinations outside root_dir
C13_Witness ==
    /\ pc = "done"
    /\ cfg.dedupe_leftovers
    /\ ~cfg.dry_run
    /\ ~cfg.pairs_in_root
    /\ \E k \in 1..Len(leftovers_log) :
          /\ leftovers_log[k].action = "skip-dup"
          /\ LeftoverDigest(k) \in PairDigests

C15_ProbeFailureIsUnknownDuration ==
    env.ffprobe # "ok" =>
        /\ pc # "raised"
        /\ \A i \in 1..Len(pairs) : pairs[i].match_type # "cross_dir"

\* C16: when root_dir is no directory process() ends in FileNotFoundError
\* with nothing done: nothing scanned or paired, no directory, file or
\* manifest made, every counter zero and every issue list empty.
C16_MissingRootAbortsBeforeWork ==
    ~root_is_dir =>
        /\ pc \in {"idle", "raised"}
        /\ pc = "raised" => raised = "FileNotFoundError"
        /\ walk = <<>>
        /\ by_dir_base = <<>>
        /\ pairs = <<>>
        /\ used_files = {}
        /\ leftovers_log = <<>>
        /\ fs = EmptyFs
        /\ stats = ZeroStats
        /\ issues = NoIssues

\* process() has raised FileNotFoundError for a root that is no directory
C16_Witness ==
    /\ ~root_is_dir
    /\ pc = "raised"
    /\ raised = "FileNotFoundError"

\* C17 as stated: an exception leaves process() only when root_dir is no
\* directory; with any other failure the run completes.
C17_OnlyMissingRootSurfaces ==
    pc = "raised" => (raised = "FileNotFoundError" /\ ~root_is_dir)

\* C18 as stated: once stop_processing has cleared the flag while process()
\* is running, no step of the run changes the destination trees: no
\* directory, link, copy or manifest row is added after the stop.
C18_NoWriteAfterStop ==
    [][(~processing /\ pc \in {"idle", "scanned", "paired", "staged"}) => fs' = fs]_vars

\* C19 as stated: no step of a process() run creates, modifies or deletes a
\* path under the source root: the source tree and the content of its files
\* are the same after every step of a run as before it.
C19_SourceTreeReadOnly ==
    [][(pc \in {"idle", "scanned", "paired", "staged"}) =>
          (tree' = tree /\ content' = content)]_vars

\* the orphaned videos a caller of the processor sees:
\* "self.processor.issues.get('orphaned_videos', [])"
OrphanedVideos(iss) ==
    IF "orphaned_videos" \in DOMAIN iss THEN iss.orphaned_videos ELSE <<>>

ReportedOrphan(v) ==
    \E k \in 1..Len(OrphanedVideos(issues)) : OrphanedVideos(issues)[k].video_path = v

\* C20 as stated: when process() has returned, issues has the list
\* orphaned_videos; with a positive threshold every video of a basename with
\* videos and no still has been probed and is in the list exactly when its
\* duration is known and at most the threshold; with a threshold of 0 the
\* list is empty.
C20_OrphanedVideosReported ==
    pc = "done" =>
        /\ "orphaned_videos" \in DOMAIN issues
        /\ ~DurationGate(cfg.max_video_duration) => OrphanedVideos(issues) = <<>>
        /\ DurationGate(cfg.max_video_duration) =>
              \A b \in DOMAIN videos_by_base \ DOMAIN stills_by_base :
                  \A n \in 1..Len(videos_by_base[b]) :
                      LET v == videos_by_base[b][n]
                      IN  /\ \E r \in probed : r.video = v
                          /\ ReportedOrphan(v)
                                <=> \E r \in probed :
                                       /\ r.video = v
                                       /\ r.result # NoneDuration
                                       /\ r.result <= cfg.max_video_duration

\* the prober was called for v and its answer passed the duration filter
ProbedAndAccepted(v) ==
    \E r \in probed : /\ r.video = v
                      /\ r.result # NoneDuration
                      /\ r.result <= cfg.max_video_duration

DuplicateKeys(index) == Cardinality({b \in DOMAIN index : Len(index[b]) > 1})

\* C22 as stated: when a process() call has returned, with the destinations
\* outside root_dir, the counters and the issue lists are those of this call
\* alone: total_scanned is the number of files walked, the pair counters
\* count the pairs of the returned list, the leftover counters count the
\* leftovers this call handled, and the issue lists hold the findings of this
\* scan once.
C22_StatsOfLastCallOnly ==
    (pc = "done" /\ ~cfg.pairs_in_root) =>
        /\ stats.total_scanned = Len(walk)
        /\ stats.same_dir_pairs = CountType(pairs, "same_dir")
        /\ stats.cross_dir_pairs = CountType(pairs, "cross_dir")
        /\ stats.leftovers_staged + stats.leftovers_skipped = Len(leftovers_log)
        /\ stats.duplicate_names
              = DuplicateKeys(stills_by_base) + DuplicateKeys(videos_by_base)
        /\ Len(issues.duplicate_names) = stats.duplicate_names
        /\ Len(issues.matching_conflicts) = stats.potential_issues
        /\ Len(issues.structure_warnings) <= 1

\* the suffixes of the universe that are still or video suffixes in some
\* spelling
StillSuffixes == {"jpg", "PNG"}
VideoSuffixes == {"mov"}

\* the number of places of an index list that hold f
Places(list, f) == Cardinality({n \in 1..Len(list) : list[n] = f})

\* the number of groups of by_dir_base with the given key that hold f once
\* in their list of stills (or of videos)
GroupPlaces(f, key, still) ==
    Cardinality({i \in 1..Len(by_dir_base) :
        /\ by_dir_base[i].key = key
        /\ Places(IF still THEN by_dir_base[i].stills ELSE by_dir_base[i].videos, f) = 1})

AllGroupPlaces(f) ==
    Cardinality({i \in 1..Len(by_dir_base) : f \in SeqToSet(by_dir_base[i].stills)})
        + Cardinality({i \in 1..Len(by_dir_base) : f \in SeqToSet(by_dir_base[i].videos)})

AllIndexPlaces(index, f) ==
    Cardinality({b \in DOMAIN index : f \in SeqToSet(index[b])})

\* C23: after the scan of a first call, total_scanned is the number of files
\* in the tree, recognized or not; a file whose suffix is a still suffix in
\* any spelling is once in the stills of its (directory, basename) group and
\* once in stills_by_base under its basename and nowhere else, likewise a
\* video, and a file of any other suffix is in no index.
C23_ScanCountsAllIndexesMedia ==
    (pc \in {"scanned", "paired", "staged", "done"} /\ run = 1) =>
        /\ stats.total_scanned = Cardinality(tree)
        /\ \A f \in tree :
              LET still == f.ext \in StillSuffixes
                  video == f.ext \in VideoSuffixes
              IN  IF still \/ video
                  THEN /\ GroupPlaces(f, <<f.dir, Stem(f)>>, still) = 1
                       /\ AllGroupPlaces(f) = 1
                       /\ Stem(f) \in DOMAIN (IF still THEN stills_by_base
                                                       ELSE videos_by_base)
                       /\ Places((IF still THEN stills_by_base
                                           ELSE videos_by_base)[Stem(f)], f) = 1
                       /\ AllIndexPlaces(stills_by_base, f)
                             + AllIndexPlaces(videos_by_base, f) = 1
                  ELSE /\ AllGroupPlaces(f) = 0
                       /\ AllIndexPlaces(stills_by_base, f) = 0
                       /\ AllIndexPlaces(videos_by_base, f) = 0

\* a tree with a text file, a still with an upper-case suffix and a video has
\* been scanned
C23_Witness ==
    /\ pc = "scanned"
    /\ \E f, g, h \in tree : f.ext = "txt" /\ g.ext = "PNG" /\ h.ext = "mov"
    /\ stats.total_scanned >= 3

PairRows == fs.pairs_manifest.rows
LeftRows == fs.left_manifest.rows

\* C24: in a real run a row of the pairs manifest names two output files
\* that are in pairs_dir, and a COPIED row an output file that is in
\* leftovers_dir; when safe_link_or_copy has raised in process_pairs the
\* manifest holds the rows of the pairs before the failed one and none for
\* it, and when it has raised in process_leftovers the leftover it failed on
\* has no row.
C24_RowsAfterSuccess ==
    /\ \A n \in 1..Len(PairRows) :
          {PairRows[n].still_out, PairRows[n].video_out} \subseteq DOMAIN fs.pairs_files
    /\ \A n \in 1..Len(LeftRows) :
          LeftRows[n].action = "COPIED" => LeftRows[n].out \in DOMAIN fs.left_files
    /\ (pc = "raised" /\ raised = "OSError" /\ leftovers_log = <<>>) =>
          /\ Len(PairRows) < Len(pairs)
          /\ \A n \in 1..Len(PairRows) : PairRows[n] = PairRow(n, pairs[n])
          /\ {pairs[Len(PairRows) + 1].still, pairs[Len(PairRows) + 1].video}
                \cap env.copy_fails # {}
    /\ (pc = "raised" /\ raised = "OSError" /\ leftovers_log # <<>>) =>
          LET last == leftovers_log[Len(leftovers_log)]
          IN  /\ last.action = "leftover"
              /\ last.src \in env.copy_fails
              /\ \A n \in 1..Len(LeftRows) : LeftRows[n].left_id # last.left_id
              /\ Len(LeftRows) = Len(leftovers_log) - 1

\* the copy of the second leftover has failed after the first leftover was
\* staged and logged
C24_Witness ==
    /\ pc = "raised"
    /\ raised = "OSError"
    /\ Len(leftovers_log) = 2
    /\ Len(LeftRows) = 1
    /\ LeftRows[1].out \in DOMAIN fs.left_files

\* the media files the walk of process_leftovers meets: those of the source
\* tree and, when pairs_dir lies under root_dir, the staged pair files
WalkedMedia ==
    {f \in tree \cup (IF cfg.pairs_in_root THEN DOMAIN fs.pairs_files ELSE {}) :
        IsMedia(f)}

\* C25: when a real run has returned, whatever the manifests held before,
\* the pairs manifest is the header and one row per pair, in the order of the
\* list and numbered from 1, and the leftovers manifest is the header and
\* one COPIED or SKIP_DUP row for every walked media file that is not in
\* used_files, and no other row.
C25_ManifestsRewritten ==
    (pc = "done" /\ ~cfg.dry_run) =>
        /\ fs.pairs_manifest.exists
        /\ PairRows = [n \in 1..Len(pairs) |-> PairRow(n, pairs[n])]
        /\ fs.left_manifest.exists
        /\ \A n \in 1..Len(LeftRows) : LeftRows[n].action \in {"COPIED", "SKIP_DUP"}
        /\ {LeftRows[n].src : n \in 1..Len(LeftRows)} = WalkedMedia \ used_files
        /\ Len(LeftRows) = Cardinality(WalkedMedia \ used_files)

\* a real run has returned over destinations whose manifests held the rows
\* of an earlier real run
C25_Witness ==
    /\ pc = "done"
    /\ ~cfg.dry_run
    /\ run = 2
    /\ start.fs.pairs_manifest.rows # <<>>
    /\ start.fs.left_manifest.rows # <<>>
    /\ PairRows # <<>>
    /\ LeftRows # <<>>

\* C26: the still and the video of a same_dir pair lie in one directory,
\* those of a cross_dir pair in two; every pair is of one of the two types
\* and joins a still and a video of the pair's basename.
C26_MatchTypeIsLocation ==
    PairsFound =>
        \A i \in 1..Len(pairs) :
            /\ pairs[i].match_type \in {"same_dir", "cross_dir"}
            /\ pairs[i].match_type = "same_dir" <=> pairs[i].still.dir = pairs[i].video.dir
            /\ Stem(pairs[i].still) = pairs[i].base
            /\ Stem(pairs[i].video) = pairs[i].base

\* with the duration filter off find_pairs returned a pair of each type
C26_Witness ==
    /\ PairsFound
    /\ ~DurationGate(cfg.max_video_duration)
    /\ \E i, j \in 1..Len(pairs) :
          /\ pairs[i].match_type = "same_dir"
          /\ pairs[i].still.dir = pairs[i].video.dir
          /\ pairs[j].match_type = "cross_dir"
          /\ pairs[j].still.dir # pairs[j].video.dir

\* C27 as stated: the manifests a real run leaves hold no row for a file
\* whose destination was present when the run began.
C27_Original ==
    /\ pc \in {"staged", "done"} =>
          \A n \in 1..Len(PairRows) :
              {PairRows[n].still_out, PairRows[n].video_out}
                  \cap ExistedAtStart(start.fs.pairs_files) = {}
    /\ leftovers_log # <<>> =>
          \A n \in 1..Len(LeftRows) :
              LeftRows[n].action = "COPIED" =>
                  LeftRows[n].out \notin ExistedAtStart(start.fs.left_files)

\* C27 amended: a file whose destination was present when the run began is
\* skipped silently (the destination stays as it was) and the manifests of
\* the run hold its row all the same: the row of its pair, or one COPIED row
\* of the leftover.
C27_ExistingDestinationStillLogged ==
    /\ pc \in {"staged", "done"} =>
          \A i \in 1..Len(pairs) :
              PairOutName(i, pairs[i], "STILL") \in ExistedAtStart(start.fs.pairs_files) =>
                  /\ i <= Len(PairRows)
                  /\ PairRows[i] = PairRow(i, pairs[i])
                  /\ fs.pairs_files[PairOutName(i, pairs[i], "STILL")]
                        = start.fs.pairs_files[PairOutName(i, pairs[i], "STILL")]
    /\ \A k \in 1..Len(leftovers_log) :
          LET dst == LeftOutName(leftovers_log[k].left_id, leftovers_log[k].src)
          IN  (leftovers_log[k].action = "leftover"
                  /\ dst \in ExistedAtStart(start.fs.left_files)) =>
                  /\ Cardinality(LeftoverRows(k, "COPIED")) = 1
                  /\ fs.left_files[dst] = start.fs.left_files[dst]

\* the call before ended in an exception after it had staged a leftover; in
\* this call the leftover met its destination and got its row
C27_Witness ==
    /\ run = 2
    /\ prev.pc = "raised"
    /\ \E k \in 1..Len(leftovers_log) :
          LET dst == LeftOutName(leftovers_log[k].left_id, leftovers_log[k].src)
          IN  /\ leftovers_log[k].action = "leftover"
              /\ dst \in ExistedAtStart(start.fs.left_files)
              /\ Cardinality(LeftoverRows(k, "COPIED")) = 1

\* the number of pairs of the list that hold f, and of log entries for f
PairsWith(f) == Cardinality({i \in 1..Len(pairs) : f \in {pairs[i].still, pairs[i].video}})
LogEntriesFor(f) == Cardinality({k \in 1..Len(leftovers_log) : leftovers_log[k].src = f})

\* C28: when the first process() call over destinations outside root_dir has
\* returned, every file with a recognized suffix is in exactly one pair or
\* has exactly one leftover entry (staged or skipped), never both; twice the
\* pair counters plus the two leftover counters is the number of such files;
\* and the leftover ids are 1, 2, ... in the order of handling, up to
\* leftovers_staged + leftovers_skipped.
C28_NoMediaFileLost ==
    (pc = "done" /\ run = 1 /\ ~cfg.pairs_in_root) =>
        /\ \A f \in {g \in tree : g.ext \in StillSuffixes \cup VideoSuffixes} :
              PairsWith(f) + LogEntriesFor(f) = 1
        /\ 2 * (stats.same_dir_pairs + stats.cross_dir_pairs)
              + stats.leftovers_staged + stats.leftovers_skipped
              = Cardinality({g \in tree : g.ext \in StillSuffixes \cup VideoSuffixes})
        /\ \A k \in 1..Len(leftovers_log) : leftovers_log[k].left_id = k
        /\ Len(leftovers_log) = stats.leftovers_staged + stats.leftovers_skipped
        /\ stats.leftovers_skipped
              = Cardinality({k \in 1..Len(leftovers_log) :
                                leftovers_log[k].action = "skip-dup"})

\* a first call has returned with a pair, a staged leftover or a skipped one
\* and consecutive leftover ids
C28_Witness ==
    /\ pc = "done"
    /\ run = 1
    /\ ~cfg.pairs_in_root
    /\ stats.same_dir_pairs + stats.cross_dir_pairs >= 1
    /\ stats.leftovers_staged + stats.leftovers_skipped >= 1
    /\ \E f \in tree : PairsWith(f) = 0 /\ LogEntriesFor(f) = 1

\* the answers the prober gave in this call, as a function of the video; a
\* video it was not asked about has no known duration
AnswersGiven ==
    [v \in {f \in tree : IsVideo(f)} |->
        IF \E r \in probed : r.video = v
        THEN (CHOOSE r \in probed : r.video = v).result
        ELSE NoneDuration]

\* what find_pairs returns when the scan has walked the tree in the order w
\* and the prober gives the answers of this call
PairsInOrder(w) ==
    find_pairs(IndexGroups(w, Len(w)), IndexStills(w), IndexVideos(w),
               cfg.max_video_duration, AnswersGiven)

CrossDirPart(ps) == SelectSeq(ps, LAMBDA p : p.match_type = "cross_dir")

\* C29: for the tree and the prober's answers of this call, find_pairs
\* returns for every walk order the same set of pairs and the same
\* used_files, asks the prober about the same videos, and returns the
\* cross_dir pairs in the same order after all same_dir pairs; only the
\* places of the same_dir pairs differ.
C29_PairsIndependentOfWalkOrder ==
    (pc = "paired" /\ ~cfg.pairs_in_root) =>
        \A w \in WalkOrders(tree) :
            LET r == PairsInOrder(w)
            IN  /\ ~r.raised
                /\ SeqToSet(r.pairs) = SeqToSet(pairs)
                /\ Len(r.pairs) = Len(pairs)
                /\ r.used_files = used_files
                /\ r.probed = probed
                /\ CrossDirPart(r.pairs) = CrossDirPart(pairs)
                /\ \A i, j \in 1..Len(r.pairs) :
                      (r.pairs[i].match_type = "cross_dir" /\ i < j) =>
                          r.pairs[j].match_type = "cross_dir"

\* find_pairs has returned two same_dir pairs and another walk order gives
\* them in the other order
C29_Witness ==
    /\ pc = "paired"
    /\ ~cfg.pairs_in_root
    /\ Len(pairs) = 2
    /\ \E w \in WalkOrders(tree) :
          /\ PairsInOrder(w).pairs # pairs
          /\ SeqToSet(PairsInOrder(w).pairs) = SeqToSet(pairs)

\* the digests that can be read from the files of the two destination
\* directories
StagedDigests ==
    {ReadThrough(fs.pairs_files[d], content) :
        d \in {x \in DOMAIN fs.pairs_files : Exists(fs.pairs_files, x, tree)}}
    \cup
    {ReadThrough(fs.left_files[d], content) :
        d \in {x \in DOMAIN fs.left_files : Exists(fs.left_files, x, tree)}}

\* C30 as stated: when a real run with dedupe_leftovers has returned, and
\* the source files are as the run read them, the content of every leftover
\* it skipped with a SKIP_DUP row can be read from a file of pairs_dir or
\* leftovers_dir, also when the directories held the files of an earlier run.
C30_SkippedContentIsStaged ==
    (pc = "done" /\ ~cfg.dry_run /\ cfg.dedupe_leftovers /\ content = start.content) =>
        \A k \in 1..Len(leftovers_log) :
            leftovers_log[k].action = "skip-dup" => LeftoverDigest(k) \in StagedDigests

====
